---- MODULE Spec2Model ----
(***************************************************************************)
(* A model of rts/Sim/Misc/SmoothHeightMesh.cpp (the smoothed ground mesh  *)
(* of the Spring engine).                                                  *)
(*                                                                         *)
(* Arithmetic.  The program computes in 32-bit floats.  Here every height  *)
(* is an integer (a fixed-point height), a world coordinate is an integer, *)
(* the quotient x / res is kept as the pair (x \div res, x % res), and the *)
(* normalised Gaussian weights are integers over Fixed, so that a          *)
(* convolution is rounded once, by the division by Fixed.  An interpolated *)
(* height is returned as a numerator over resolution^2.                    *)
(*                                                                         *)
(* Assertions.  assert() is taken to be compiled in: a failing assertion   *)
(* aborts the program, which is the state pc = "fatal".                    *)
(*                                                                         *)
(* Arrays are functions on 0..n-1; the empty vector is << >>.              *)
(***************************************************************************)
EXTENDS Integers, Sequences, FiniteSets, TLC

VARIABLES
    hmap,           \* the HeightSource: world (x, z) -> true terrain height
    currMinHeight,  \* readMap's extrema of the terrain
    currMaxHeight,
    fmaxx, fmaxy,   \* SmoothHeightMesh members
    maxx, maxy,
    resolution,
    smoothRadius,
    mesh, origMesh,
    colsMaxima, maximaRows,
    pc,             \* where the thread inside Init/MakeSmoothMesh stands
    row,            \* y of the sweep loop (line 410)
    numBlurs,       \* numBlurs of the blur loop (line 421)
    pending,        \* iterations of the running for_mt not yet executed
    writes,         \* <<worker, flat index>> written during the running blur pass
    stage,          \* passes of the running/last build that are complete
    life,           \* "fresh", "building", "ready", "killed"
    radArg,         \* the smoothRad argument of the last Init call
    last,           \* the last call: its arguments, return value and reads
    nInits, nEdits, \* calls made so far (bounded by MaxInits, MaxEdits)
    maxTextureSize, \* globalRendering->maxTextureSize
    texSize,        \* CFarTextureHandler members
    usedFarTextures,
    iconCache,
    farCall,        \* the last CreateFarTexture call and what it did
    atlasFull,      \* CheckResizeAtlas has returned false at least once
    fboValid,       \* fbo.IsValid()
    createQueue, renderQueue,
    drawn,          \* what DrawFarTexture did for each object of the last Draw
    listDefaultCommand, \* CLuaCallInHandler member
    luaCall         \* the last call-in: the handles' answers, the handles consulted, the result

vars == <<hmap, currMinHeight, currMaxHeight, fmaxx, fmaxy, maxx, maxy, resolution, smoothRadius, mesh,
          origMesh, colsMaxima, maximaRows, pc, row, numBlurs, pending,
          writes, stage, life, radArg, last, nInits, nEdits,
          maxTextureSize, texSize, usedFarTextures, iconCache, farCall, atlasFull,
          fboValid, createQueue, renderQueue, drawn, listDefaultCommand, luaCall>>

-----------------------------------------------------------------------------
(* Bounds of the model *)

MaxSpikes == 2
MaxInits == 2
MaxEdits == 2

(* Program constants *)

NegFltMax == -1000000
blurPassesCount == 2
gSigma == 5

Fixed == 10 * 100

-----------------------------------------------------------------------------
(* Helpers *)

Min2(a, b) == IF b < a THEN b ELSE a

Max2(a, b) == IF a < b THEN b ELSE a

Clamp(v, lo, hi) == Min2(Max2(v, lo), hi)

Abs(a) == IF a < 0 THEN -a ELSE a

MaxOfSet(S) == CHOOSE v \in S : \A u \in S : u <= v

MinOfSet(S) == CHOOSE v \in S : \A u \in S : v <= u

Size(a) == Cardinality(DOMAIN a)

Resize(a, n, fill) == [i \in 0..(n - 1) |-> IF i \in DOMAIN a THEN a[i] ELSE fill]

-----------------------------------------------------------------------------
(* The HeightSource (CGround / readMap) *)

WorldCoords == 0..4

World == WorldCoords \X WorldCoords

HeightVals == {-4000, 3000, 6000}

GetHeightReal(wx, wz) == hmap[<<wx, wz>>]

GetCurrMinHeight == currMinHeight

GetCurrMaxHeight == currMaxHeight

HeightSource(F) ==
    /\ hmap \in F
    /\ currMinHeight = MinOfSet({hmap[p] : p \in World})
    /\ currMaxHeight = MaxOfSet({hmap[p] : p \in World})

HeightSourceUnchanged == UNCHANGED <<hmap, currMinHeight, currMaxHeight>>

Sites == {<<2, 0>>, <<2, 2>>, <<2, 4>>, <<0, 2>>, <<4, 2>>, <<3, 3>>}

(* the fields that differ from a flat one at no more than k points of S *)
RECURSIVE FieldsOn(_, _)
FieldsOn(S, k) ==
    IF k = 0 THEN {[p \in World |-> b] : b \in HeightVals}
    ELSE LET F == FieldsOn(S, k - 1)
         IN F \cup {[f EXCEPT ![q] = v] : f \in F, q \in S, v \in HeightVals}

Fields == FieldsOn(World, 1) \cup FieldsOn(Sites, MaxSpikes)

Ramp == [p \in World |-> 1000 * p[1] - 700 * p[2] + 500]

Ridge == [p \in World |-> IF p[1] = 2 THEN 2600 + 100 * p[2] ELSE 1100 + 200 * p[1]]

LifeFields == {Ramp, Ridge}

-----------------------------------------------------------------------------
(* The sliding-window maximum pass *)

RECURSIVE FindMaxColumn(_, _, _, _, _, _)
FindMaxColumn(y, ylast, x, res, c, r) ==
    IF y > ylast THEN [c |-> c, r |-> r]
    ELSE LET curh == GetHeightReal(x * res, y * res)
         IN IF curh > c
            THEN FindMaxColumn(y + 1, ylast, x, res, curh, y)
            ELSE FindMaxColumn(y + 1, ylast, x, res, c, r)

(* mutant: the bootstrap stops one row short of the first window *)
FindMaximumColumnHeights_ShortBoot(mxx, mxy, winSize, res, cm, mr) ==
    LET col == [x \in 0..mxx |->
                   FindMaxColumn(0, Min2(mxy, winSize - 1), x, res, cm[x], mr[x])]
    IN [cols |-> [x \in 0..mxx |-> col[x].c],
        rows |-> [x \in 0..mxx |-> col[x].r]]

FindMaximumColumnHeights(mxx, mxy, winSize, res, cm, mr) ==
    LET col == [x \in 0..mxx |->
                   FindMaxColumn(0, Min2(mxy, winSize), x, res, cm[x], mr[x])]
    IN [cols |-> [x \in 0..mxx |-> col[x].c],
        rows |-> [x \in 0..mxx |-> col[x].r]]

AdvanceMaximaRows(y, mxx, res, cm, mr) ==
    [rows |-> [x \in 0..mxx |->
                  IF mr[x] = y - 1 /\ GetHeightReal(x * res, y * res) = cm[x]
                  THEN y ELSE mr[x]],
     ok |-> \A x \in 0..mxx :
                mr[x] = y - 1 => GetHeightReal(x * res, y * res) <= cm[x]]

RadialIndex(x, y, mxx) == x + y * mxx

RadialStart(x, winSize) == Max2(x - winSize, 0)

(* mutant: the window ends one column early *)
RadialEnd_Narrow(x, mxx, winSize) == Min2(mxx - 1, x + winSize - 1)

RadialEnd(x, mxx, winSize) == Min2(mxx - 1, x + winSize)

(* the indices of colsMaxima and maximaRows the loops over x = 0..maxx use *)
ColumnIndices(mxx) == 0..mxx

(* mutant: the radial scan of column x runs to x + winSize *)
RadialReads_Unclamped(mxx, winSize) ==
    UNION {RadialStart(x, winSize)..(x + winSize) : x \in 0..(mxx - 1)}

(* the indices of colsMaxima FindRadialMaximum reads *)
RadialReads(mxx, winSize) ==
    UNION {RadialStart(x, winSize)..RadialEnd(x, mxx, winSize) : x \in 0..(mxx - 1)}

(* the indices of mesh FindRadialMaximum(y) writes *)
RadialWrites(y, mxx) == {RadialIndex(x, y, mxx) : x \in 0..(mxx - 1)}

RadialMax(x, mxx, winSize, cm) ==
    MaxOfSet({NegFltMax} \cup
             {cm[i] : i \in RadialStart(x, winSize)..RadialEnd(x, mxx, winSize)})

FindRadialMaximum(y, mxx, winSize, res, cm, m) ==
    [mesh |-> [i \in DOMAIN m |->
                  IF \E x \in 0..(mxx - 1) : i = RadialIndex(x, y, mxx)
                  THEN RadialMax(i - y * mxx, mxx, winSize, cm)
                  ELSE m[i]],
     ok |-> \A x \in 0..(mxx - 1) :
                /\ \A i \in RadialStart(x, winSize)..RadialEnd(x, mxx, winSize) :
                       /\ i >= 0
                       /\ i <= mxx
                       /\ GetHeightReal(i * res, y * res) <= cm[i]
                /\ RadialMax(x, mxx, winSize, cm) <= GetCurrMaxHeight
                /\ RadialMax(x, mxx, winSize, cm) >= GetHeightReal(x * res, y * res)]

RECURSIVE RescanColumn(_, _, _, _, _, _)
RescanColumn(y1, ylast, x, res, c, r) ==
    IF y1 > ylast THEN [c |-> c, r |-> r]
    ELSE LET h == GetHeightReal(x * res, y1 * res)
         IN IF h > c THEN RescanColumn(y1 + 1, ylast, x, res, h, y1)
            ELSE IF c = h THEN RescanColumn(y1 + 1, ylast, x, res, c, y1)
            ELSE RescanColumn(y1 + 1, ylast, x, res, c, r)

FixColumn(y, x, mxy, winSize, res, c, r) ==
    LET nextrow == y + winSize + 1
    IN IF r <= y - winSize
       THEN RescanColumn(Max2(0, y - winSize + 1), Min2(mxy, nextrow), x, res,
                         NegFltMax, r)
       ELSE IF nextrow <= mxy /\ GetHeightReal(x * res, nextrow * res) > c
       THEN [c |-> GetHeightReal(x * res, nextrow * res), r |-> nextrow]
       ELSE [c |-> c, r |-> r]

FixRemainingMaxima(y, mxx, mxy, winSize, res, cm, mr) ==
    LET col == [x \in 0..mxx |-> FixColumn(y, x, mxy, winSize, res, cm[x], mr[x])]
    IN [cols |-> [x \in 0..mxx |-> col[x].c],
        rows |-> [x \in 0..mxx |-> col[x].r],
        ok |-> \A x \in 0..mxx :
                   /\ col[x].r <= y + winSize + 1
                   /\ col[x].r >= y - winSize + 1]

-----------------------------------------------------------------------------
(* The Gaussian kernel and the blur passes *)

gaussianG(x) ==
    \* 0.3989422804 * exp(-0.5 * x * x / (gSigma * gSigma)) / gSigma, times 10^6
    CASE x = 0 -> 79788
      [] x = 1 -> 78209
      [] x = 2 -> 73654
      [] x = 3 -> 66645
      [] OTHER -> 57938

RECURSIVE GaussianSum(_)
GaussianSum(i) == IF i = 0 THEN gaussianG(0) ELSE 2 * gaussianG(i) + GaussianSum(i - 1)

fillGaussianKernel(blurSize) ==
    [i \in 0..blurSize |-> (gaussianG(i) * Fixed) \div GaussianSum(blurSize)]

Kernels == [b \in 1..4 |-> fillGaussianKernel(b)]

WinSize == smoothRadius \div resolution

BlurSize == Max2(1, WinSize \div 2)

BlurIndex(x, y, lineSize) == x + y * lineSize

(* mutant: a tap right of the row is taken from the next element *)
HorizontalTap_Spill(x, y, x1, mxx) == BlurIndex(Max2(0, Min2(mxx, x1)), y, mxx)

HorizontalTap(x, y, x1, mxx) == BlurIndex(Max2(0, Min2(mxx - 1, x1)), y, mxx)

VerticalTap(x, y, y1, mxx, mxy) == BlurIndex(x, Max2(0, Min2(mxy - 1, y1)), mxx)

RECURSIVE HorizontalSum(_, _, _, _, _, _, _)
HorizontalSum(x1, xlast, x, y, mxx, kernel, m) ==
    IF x1 > xlast THEN 0
    ELSE kernel[Abs(x1 - x)] * m[HorizontalTap(x, y, x1, mxx)]
         + HorizontalSum(x1 + 1, xlast, x, y, mxx, kernel, m)

RECURSIVE VerticalSum(_, _, _, _, _, _, _, _)
VerticalSum(y1, ylast, x, y, mxx, mxy, kernel, m) ==
    IF y1 > ylast THEN 0
    ELSE kernel[Abs(y1 - y)] * m[VerticalTap(x, y, y1, mxx, mxy)]
         + VerticalSum(y1 + 1, ylast, x, y, mxx, mxy, kernel, m)

(* mutant: the blurred value is not raised to the true height *)
BlurCell_NoGround(avg, x, y, res) == Clamp(avg, GetCurrMinHeight, GetCurrMaxHeight)

(* mutant: the result is not clamped to the terrain's range *)
BlurCell_NoClamp(avg, x, y, res) == Max2(GetHeightReal(x * res, y * res), avg)

(* mutant: the result is clamped from below only *)
BlurCell_ClampBelow(avg, x, y, res) ==
    Max2(Max2(GetHeightReal(x * res, y * res), avg), GetCurrMinHeight)

BlurCell(avg, x, y, res) ==
    Clamp(Max2(GetHeightReal(x * res, y * res), avg), GetCurrMinHeight, GetCurrMaxHeight)

HorizontalCell(x, y, mxx, blurSize, res, kernel, m) ==
    BlurCell(HorizontalSum(x - blurSize, x + blurSize, x, y, mxx, kernel, m) \div Fixed,
             x, y, res)

VerticalCell(x, y, mxx, mxy, blurSize, res, kernel, m) ==
    BlurCell(VerticalSum(y - blurSize, y + blurSize, x, y, mxx, mxy, kernel, m) \div Fixed,
             x, y, res)

(* mutant: the loop over x runs to maxx inclusive *)
HorizontalWrites_Spill(y, mxx) == {BlurIndex(x, y, mxx) : x \in 0..mxx}

(* the destination indices one iteration writes *)
HorizontalWrites(y, mxx) == {BlurIndex(x, y, mxx) : x \in 0..(mxx - 1)}

VerticalWrites(x, mxx, mxy) == {BlurIndex(x, y, mxx) : y \in 0..(mxy - 1)}

(* the indices of the kernel a convolution uses *)
KernelReads(blurSize) == {Abs(x1) : x1 \in -blurSize..blurSize}

(* the source indices one iteration reads (the taps of its convolutions) *)
HorizontalReads(y, mxx, blurSize) ==
    {HorizontalTap(x, y, x1, mxx) : x \in 0..(mxx - 1), x1 \in -blurSize..(mxx - 1 + blurSize)}

VerticalReads(x, mxx, mxy, blurSize) ==
    {VerticalTap(x, y, y1, mxx, mxy) : y \in 0..(mxy - 1), y1 \in -blurSize..(mxy - 1 + blurSize)}

(* the destination indices one iteration reads back (the clamp and the
   assertions on the element it has just written) *)
HorizontalReadsBack(y, mxx) == {BlurIndex(x, y, mxx) : x \in 0..(mxx - 1)}

VerticalReadsBack(x, mxx, mxy) == {BlurIndex(x, y, mxx) : y \in 0..(mxy - 1)}

(* one iteration of the for_mt of BlurHorizontal: the row y *)
BlurHorizontal(y, mxx, mxy, blurSize, res, kernel, m, smoothed) ==
    [i \in DOMAIN smoothed |->
        IF i \in HorizontalWrites(y, mxx)
        THEN HorizontalCell(i - y * mxx, y, mxx, blurSize, res, kernel, m)
        ELSE smoothed[i]]

(* one iteration of the for_mt of BlurVertical: the column x *)
BlurVertical(x, mxx, mxy, blurSize, res, kernel, m, smoothed) ==
    [i \in DOMAIN smoothed |->
        IF i \in VerticalWrites(x, mxx, mxy)
        THEN VerticalCell(x, (i - x) \div mxx, mxx, mxy, blurSize, res, kernel, m)
        ELSE smoothed[i]]

-----------------------------------------------------------------------------
(* Queries *)

(* mutant: rows are maxx + 1 elements apart *)
InterpIndex_Wide(sx, sy, mxx) == sx + sy * (mxx + 1)

InterpIndex(sx, sy, mxx) == sx + sy * mxx

mix(v1, v2, num, den) == v1 * den + (v2 - v1) * num

(* mutant: the clamp admits the grid line mx *)
InterpClamp_Max(x, res, mx) == Clamp(x, 0, mx * res)

InterpClamp(x, res, mx) == Clamp(x, 0, (mx - 1) * res)

Interpolate(x, y, mxx, mxy, res, heightmap) ==
    LET cx == InterpClamp(x, res, mxx)
        cy == InterpClamp(y, res, mxy)
        sx == cx \div res
        sy == cy \div res
        dx == cx % res
        dy == cy % res
        sxp1 == Min2(sx + 1, mxx - 1)
        syp1 == Min2(sy + 1, mxy - 1)
        i1 == InterpIndex(sx, sy, mxx)
        i2 == InterpIndex(sxp1, sy, mxx)
        i3 == InterpIndex(sx, syp1, mxx)
        i4 == InterpIndex(sxp1, syp1, mxx)
        hi1 == mix(heightmap[i1], heightmap[i2], dx, res)
        hi2 == mix(heightmap[i3], heightmap[i4], dx, res)
    IN [val |-> mix(hi1, hi2, dy, res), reads |-> {i1, i2, i3, i4}]

-----------------------------------------------------------------------------
(* The calls and the steps of a running build *)

(* the smooth mesh has no part in the far textures *)
CallInsUnchanged == UNCHANGED <<listDefaultCommand, luaCall>>

NoLuaCall == [op |-> "none", answers |-> << >>, consulted |-> << >>, ret |-> FALSE]

(* no handle has registered for the call-in *)
NoCallIns == listDefaultCommand = << >> /\ luaCall = NoLuaCall

FarTexturesUnchanged ==
    UNCHANGED <<maxTextureSize, texSize, usedFarTextures, iconCache, farCall, atlasFull,
                fboValid, createQueue, renderQueue, drawn>>

NoFarCall == [op |-> "none", team |-> 0, model |-> 0, atlas |-> "none", slot |-> 0]

(* farTextureHandler = nullptr *)
NoFarTextureHandler ==
    /\ maxTextureSize = 0
    /\ texSize = [x |-> 0, y |-> 0]
    /\ usedFarTextures = 0
    /\ iconCache = << >>
    /\ farCall = NoFarCall
    /\ atlasFull = FALSE
    /\ createQueue = << >>
    /\ renderQueue = << >>
    /\ drawn = << >>
    /\ fboValid = FALSE

NoCall == [op |-> "none", a |-> 0, b |-> 0, ret |-> 0, returned |-> FALSE,
           reads |-> {}, building |-> FALSE]

Step(name) == [NoCall EXCEPT !.op = name]

MeshUnchanged == UNCHANGED <<mesh, origMesh, colsMaxima, maximaRows>>

GeometryUnchanged == UNCHANGED <<fmaxx, fmaxy, maxx, maxy, resolution, smoothRadius, radArg>>

BuildUnchanged == UNCHANGED <<row, numBlurs, pending, writes, stage>>

(* mutant: the radius is taken as given *)
ClampRadius_None(smoothRad) == smoothRad

ClampRadius(smoothRad) == Max2(1, smoothRad)

(* mutant: Init without the assert(mesh.empty()) of line 399 *)
InitCall_NoAssert(mx, my, res, smoothRad) ==
    /\ pc = "idle"
    /\ nInits < MaxInits
    /\ nInits' = nInits + 1
    /\ fmaxx' = mx
    /\ fmaxy' = my
    /\ maxx' = (mx \div res) + 1
    /\ maxy' = (my \div res) + 1
    /\ resolution' = res
    /\ smoothRadius' = ClampRadius(smoothRad)
    /\ radArg' = smoothRad
    /\ last' = Step("Init")
    /\ HeightSourceUnchanged
    /\ FarTexturesUnchanged
    /\ CallInsUnchanged
    /\ UNCHANGED <<nEdits, numBlurs, pending, writes>>
    /\ LET n == (maxx' + 1) * (maxy' + 1)
           boot == FindMaximumColumnHeights(
                       maxx', maxy', smoothRadius' \div res, res,
                       [x \in 0..maxx' |-> NegFltMax],
                       [x \in 0..maxx' |-> -1])
       IN /\ mesh' = Resize(mesh, n, 0)
          /\ origMesh' = Resize(origMesh, n, 0)
          /\ colsMaxima' = boot.cols
          /\ maximaRows' = boot.rows
          /\ pc' = "sweep"
          /\ row' = 0
          /\ stage' = 0
          /\ life' = "building"

(* Init(mx, my, res, smoothRad), up to the sweep loop of MakeSmoothMesh *)
InitCall(mx, my, res, smoothRad) ==
    /\ pc = "idle"
    /\ nInits < MaxInits
    /\ nInits' = nInits + 1
    /\ fmaxx' = mx
    /\ fmaxy' = my
    /\ maxx' = (mx \div res) + 1
    /\ maxy' = (my \div res) + 1
    /\ resolution' = res
    /\ smoothRadius' = ClampRadius(smoothRad)
    /\ radArg' = smoothRad
    /\ last' = Step("Init")
    /\ HeightSourceUnchanged
    /\ FarTexturesUnchanged
    /\ CallInsUnchanged
    /\ UNCHANGED <<nEdits, numBlurs, pending, writes>>
    /\ IF mesh # << >>
       THEN \* assert(mesh.empty())
            /\ pc' = "fatal"
            /\ UNCHANGED <<row, stage, life>>
            /\ MeshUnchanged
       ELSE LET n == (maxx' + 1) * (maxy' + 1)
                boot == FindMaximumColumnHeights(
                            maxx', maxy', smoothRadius' \div res, res,
                            [x \in 0..maxx' |-> NegFltMax],
                            [x \in 0..maxx' |-> -1])
            IN /\ mesh' = Resize(mesh, n, 0)
               /\ origMesh' = Resize(origMesh, n, 0)
               /\ colsMaxima' = boot.cols
               /\ maximaRows' = boot.rows
               /\ pc' = "sweep"
               /\ row' = 0
               /\ stage' = 0
               /\ life' = "building"

(* one iteration of the loop at line 410 *)
SweepRow ==
    /\ pc = "sweep"
    /\ LET adv == AdvanceMaximaRows(row, maxx, resolution, colsMaxima, maximaRows)
           rad == FindRadialMaximum(row, maxx, WinSize, resolution, colsMaxima, mesh)
           fix == FixRemainingMaxima(row, maxx, maxy, WinSize, resolution,
                                     colsMaxima, adv.rows)
       IN IF ~adv.ok
          THEN /\ pc' = "fatal"
               /\ MeshUnchanged
               /\ UNCHANGED <<row, numBlurs, pending, stage>>
          ELSE IF ~rad.ok
          THEN /\ pc' = "fatal"
               /\ maximaRows' = adv.rows
               /\ UNCHANGED <<mesh, origMesh, colsMaxima, row, numBlurs, pending, stage>>
          ELSE /\ mesh' = rad.mesh
               /\ colsMaxima' = fix.cols
               /\ maximaRows' = fix.rows
               /\ UNCHANGED origMesh
               /\ IF ~fix.ok
                  THEN /\ pc' = "fatal"
                       /\ UNCHANGED <<row, numBlurs, pending, stage>>
                  ELSE IF row < maxy
                  THEN /\ pc' = "sweep"
                       /\ row' = row + 1
                       /\ UNCHANGED <<numBlurs, pending, stage>>
                  ELSE /\ pc' = "blurH"
                       /\ numBlurs' = blurPassesCount
                       /\ pending' = 0..(maxy - 1)
                       /\ stage' = 1
                       /\ UNCHANGED row
    /\ last' = Step("sweep")
    /\ GeometryUnchanged
    /\ HeightSourceUnchanged
    /\ FarTexturesUnchanged
    /\ CallInsUnchanged
    /\ UNCHANGED <<writes, life, nInits, nEdits>>

(* one iteration of the running for_mt, on some worker thread *)
BlurWorker(i) ==
    /\ pc \in {"blurH", "blurV"}
    /\ i \in pending
    /\ pending' = pending \ {i}
    /\ IF pc = "blurH"
       THEN /\ origMesh' = BlurHorizontal(i, maxx, maxy, BlurSize, resolution,
                                          Kernels[BlurSize], mesh, origMesh)
            /\ writes' = writes \cup {<<i, j>> : j \in HorizontalWrites(i, maxx)}
       ELSE /\ origMesh' = BlurVertical(i, maxx, maxy, BlurSize, resolution,
                                        Kernels[BlurSize], mesh, origMesh)
            /\ writes' = writes \cup {<<i, j>> : j \in VerticalWrites(i, maxx, maxy)}
    /\ last' = Step("worker")
    /\ GeometryUnchanged
    /\ HeightSourceUnchanged
    /\ FarTexturesUnchanged
    /\ CallInsUnchanged
    /\ UNCHANGED <<mesh, colsMaxima, maximaRows, pc, row, numBlurs, stage,
                   life, nInits, nEdits>>

(* mutant: the last swap is not followed by the copy *)
EndPass_NoCopy ==
    /\ pc \in {"blurH", "blurV"}
    /\ pending = {}
    /\ stage' = stage + 1
    /\ writes' = {}
    /\ IF pc = "blurH"
       THEN /\ mesh' = origMesh
            /\ origMesh' = mesh
            /\ pc' = "blurV"
            /\ pending' = 0..(maxx - 1)
            /\ UNCHANGED <<numBlurs, life>>
       ELSE IF numBlurs > 1
       THEN /\ mesh' = origMesh
            /\ origMesh' = mesh
            /\ pc' = "blurH"
            /\ numBlurs' = numBlurs - 1
            /\ pending' = 0..(maxy - 1)
            /\ UNCHANGED life
       ELSE /\ mesh' = origMesh
            /\ origMesh' = mesh
            /\ pc' = "idle"
            /\ numBlurs' = 0
            /\ pending' = {}
            /\ life' = "ready"
    /\ last' = Step("endpass")
    /\ GeometryUnchanged
    /\ HeightSourceUnchanged
    /\ FarTexturesUnchanged
    /\ CallInsUnchanged
    /\ UNCHANGED <<colsMaxima, maximaRows, row, nInits, nEdits>>

(* the thread in MakeSmoothMesh after the for_mt has joined: the swap, and
   either the next pass or the final copy and the return of Init *)
EndPass ==
    /\ pc \in {"blurH", "blurV"}
    /\ pending = {}
    /\ stage' = stage + 1
    /\ writes' = {}
    /\ IF pc = "blurH"
       THEN /\ mesh' = origMesh
            /\ origMesh' = mesh
            /\ pc' = "blurV"
            /\ pending' = 0..(maxx - 1)
            /\ UNCHANGED <<numBlurs, life>>
       ELSE IF numBlurs > 1
       THEN /\ mesh' = origMesh
            /\ origMesh' = mesh
            /\ pc' = "blurH"
            /\ numBlurs' = numBlurs - 1
            /\ pending' = 0..(maxy - 1)
            /\ UNCHANGED life
       ELSE /\ mesh' = origMesh
            /\ origMesh' = [i \in DOMAIN mesh |-> origMesh[i]]
            /\ pc' = "idle"
            /\ numBlurs' = 0
            /\ pending' = {}
            /\ life' = "ready"
    /\ last' = Step("endpass")
    /\ GeometryUnchanged
    /\ HeightSourceUnchanged
    /\ FarTexturesUnchanged
    /\ CallInsUnchanged
    /\ UNCHANGED <<colsMaxima, maximaRows, row, nInits, nEdits>>

(* mutant: Kill clears the scratch buffer only *)
Kill_KeepMesh ==
    /\ pc = "idle"
    /\ origMesh' = << >>
    /\ life' = "killed"
    /\ last' = Step("Kill")
    /\ GeometryUnchanged
    /\ BuildUnchanged
    /\ HeightSourceUnchanged
    /\ FarTexturesUnchanged
    /\ CallInsUnchanged
    /\ UNCHANGED <<mesh, colsMaxima, maximaRows, pc, nInits, nEdits>>

Kill ==
    /\ pc = "idle"
    /\ mesh' = << >>
    /\ origMesh' = << >>
    /\ life' = "killed"
    /\ last' = Step("Kill")
    /\ GeometryUnchanged
    /\ BuildUnchanged
    /\ HeightSourceUnchanged
    /\ FarTexturesUnchanged
    /\ CallInsUnchanged
    /\ UNCHANGED <<colsMaxima, maximaRows, pc, nInits, nEdits>>

(* mutant: a query asserts that the last build has completed *)
Query_WhenReady(name, x, y, floor) ==
    /\ pc # "fatal"
    /\ IF life # "ready"
       THEN /\ pc' = "fatal"
            /\ last' = [Step(name) EXCEPT !.a = x, !.b = y, !.building = (pc # "idle")]
       ELSE LET r == Interpolate(x, y, maxx, maxy, resolution, mesh)
            IN /\ pc' = pc
               /\ last' = [op |-> name, a |-> x, b |-> y,
                           ret |-> IF floor THEN Max2(0, r.val) ELSE r.val,
                           returned |-> TRUE, reads |-> r.reads,
                           building |-> (pc # "idle")]
    /\ MeshUnchanged
    /\ GeometryUnchanged
    /\ BuildUnchanged
    /\ HeightSourceUnchanged
    /\ FarTexturesUnchanged
    /\ CallInsUnchanged
    /\ UNCHANGED <<life, nInits, nEdits>>

Query(name, x, y, floor) ==
    /\ pc # "fatal"
    /\ IF mesh = << >>
       THEN \* assert(!mesh.empty())
            /\ pc' = "fatal"
            /\ last' = [Step(name) EXCEPT !.a = x, !.b = y, !.building = (pc # "idle")]
       ELSE LET r == Interpolate(x, y, maxx, maxy, resolution, mesh)
            IN /\ pc' = pc
               /\ last' = [op |-> name, a |-> x, b |-> y,
                           ret |-> IF floor THEN Max2(0, r.val) ELSE r.val,
                           returned |-> TRUE, reads |-> r.reads,
                           building |-> (pc # "idle")]
    /\ MeshUnchanged
    /\ GeometryUnchanged
    /\ BuildUnchanged
    /\ HeightSourceUnchanged
    /\ FarTexturesUnchanged
    /\ CallInsUnchanged
    /\ UNCHANGED <<life, nInits, nEdits>>

GetHeight(x, y) == Query("GetHeight", x, y, FALSE)

GetHeightAboveWater(x, y) == Query("GetHeightAboveWater", x, y, TRUE)

(* an edit that patches the scratch buffer as well *)
Edit_BothBuffers(name, index, h, v) ==
    /\ pc = "idle"
    /\ index \in DOMAIN mesh
    /\ nEdits < MaxEdits
    /\ nEdits' = nEdits + 1
    /\ mesh' = [mesh EXCEPT ![index] = v]
    /\ origMesh' = [origMesh EXCEPT ![index] = v]
    /\ last' = [Step(name) EXCEPT !.a = index, !.b = h, !.ret = v, !.returned = TRUE]
    /\ GeometryUnchanged
    /\ BuildUnchanged
    /\ HeightSourceUnchanged
    /\ FarTexturesUnchanged
    /\ CallInsUnchanged
    /\ UNCHANGED <<colsMaxima, maximaRows, pc, life, nInits>>

(* mesh[index] = v, for an index inside the array: the caller chooses it *)
Edit(name, index, h, v) ==
    /\ pc = "idle"
    /\ index \in DOMAIN mesh
    /\ nEdits < MaxEdits
    /\ nEdits' = nEdits + 1
    /\ mesh' = [mesh EXCEPT ![index] = v]
    /\ last' = [Step(name) EXCEPT !.a = index, !.b = h, !.ret = v, !.returned = TRUE]
    /\ GeometryUnchanged
    /\ BuildUnchanged
    /\ HeightSourceUnchanged
    /\ FarTexturesUnchanged
    /\ CallInsUnchanged
    /\ UNCHANGED <<origMesh, colsMaxima, maximaRows, pc, life, nInits>>

SetHeight(index, h) == Edit("SetHeight", index, h, h)

AddHeight(index, h) == Edit("AddHeight", index, h, mesh[index] + h)

(* mutant: the lower of the two values is stored *)
SetMaxHeight_Min(index, h) == Edit("SetMaxHeight", index, h, Min2(h, mesh[index]))

SetMaxHeight(index, h) == Edit("SetMaxHeight", index, h, Max2(h, mesh[index]))

-----------------------------------------------------------------------------
(* Specifications *)

Fresh ==
    /\ fmaxx = 0 /\ fmaxy = 0 /\ maxx = 0 /\ maxy = 0
    /\ resolution = 0 /\ smoothRadius = 0
    /\ mesh = << >> /\ origMesh = << >>
    /\ colsMaxima = << >> /\ maximaRows = << >>
    /\ pc = "idle" /\ row = 0 /\ numBlurs = 0 /\ pending = {} /\ writes = {}
    /\ stage = 0 /\ life = "fresh" /\ radArg = 0 /\ last = NoCall
    /\ nInits = 0 /\ nEdits = 0

Args(mx, my, res, rad) == [mx |-> mx, my |-> my, res |-> res, rad |-> rad]

BuildArgs ==
    {Args(2, 3, 1, 1), Args(3, 2, 1, 2), Args(2, 2, 1, 0), Args(1, 3, 1, 4),
     Args(3, 3, 2, 2), Args(3, 2, 2, 1), Args(2, 3, 2, 4), Args(3, 1, 1, 3)}

Init == HeightSource(Fields) /\ Fresh /\ NoFarTextureHandler /\ NoCallIns

DoInit == \E a \in BuildArgs : InitCall(a.mx, a.my, a.res, a.rad)

DoWorker == \E i \in pending : BlurWorker(i)

Next == DoInit \/ SweepRow \/ DoWorker \/ EndPass

Spec == Init /\ [][Next]_vars

LifeArgs ==
    {Args(2, 3, 1, 1), Args(3, 2, 2, 2), Args(2, 2, 1, 0), Args(2, 1, 1, -1),
     Args(3, 3, 2, -1), Args(1, 2, 1, 3)}

QueryCoords == {-1, 1, 3, 5}

EditVals == {2500}

InitLife == HeightSource(LifeFields) /\ Fresh /\ NoFarTextureHandler /\ NoCallIns

DoInitLife == \E a \in LifeArgs : InitCall(a.mx, a.my, a.res, a.rad)

DoGetHeight == \E x \in QueryCoords, y \in QueryCoords : GetHeight(x, y)

DoGetHeightAboveWater ==
    \E x \in QueryCoords, y \in QueryCoords : GetHeightAboveWater(x, y)

DoSetHeight == \E i \in DOMAIN mesh, h \in EditVals : SetHeight(i, h)

DoAddHeight == \E i \in DOMAIN mesh, h \in EditVals : AddHeight(i, h)

DoSetMaxHeight == \E i \in DOMAIN mesh, h \in EditVals : SetMaxHeight(i, h)

NextLife ==
    \/ DoInitLife
    \/ SweepRow
    \/ DoWorker
    \/ EndPass
    \/ Kill
    \/ DoGetHeight
    \/ DoGetHeightAboveWater

SpecLife == InitLife /\ [][NextLife]_vars

EditArgs == {Args(1, 2, 1, 1), Args(3, 1, 2, 2), Args(2, 2, 2, 1)}

DoInitEdit == \E a \in EditArgs : InitCall(a.mx, a.my, a.res, a.rad)

NextEdit ==
    \/ DoInitEdit
    \/ SweepRow
    \/ DoWorker
    \/ EndPass
    \/ Kill
    \/ DoSetHeight
    \/ DoAddHeight
    \/ DoSetMaxHeight

SpecEdit == InitLife /\ [][NextEdit]_vars

(* GetHeight at the world position of a grid cell, between builds *)
DoGetHeightAtCell ==
    /\ pc = "idle"
    /\ \E x \in 0..(maxx - 1), y \in 0..(maxy - 1) :
           GetHeight(x * resolution, y * resolution)

NextLayout ==
    \/ DoInitEdit
    \/ SweepRow
    \/ DoWorker
    \/ EndPass
    \/ Kill
    \/ DoSetHeight
    \/ DoAddHeight
    \/ DoSetMaxHeight
    \/ DoGetHeightAtCell

SpecLayout == InitLife /\ [][NextLayout]_vars

(* A 100 x 100 world sampled every 8 units, flat at 0 but for one cell that
   is 50.00 high *)
SpikeRes == 8

SpikeLines == 0..13

SpikeWorld == {<<i * SpikeRes, j * SpikeRes>> : i \in SpikeLines, j \in SpikeLines}

SpikeHeight == 50 * 100

Spike(sx, sy) ==
    [p \in SpikeWorld |->
        IF p = <<sx * SpikeRes, sy * SpikeRes>> THEN SpikeHeight ELSE 0]

SpikeCells == {<<5, 5>>, <<0, 0>>, <<12, 11>>}

InitSpike ==
    /\ hmap \in {Spike(c[1], c[2]) : c \in SpikeCells}
    /\ currMinHeight = 0
    /\ currMaxHeight = SpikeHeight
    /\ Fresh
    /\ NoFarTextureHandler
    /\ NoCallIns

DoInitSpike == InitCall(100, 100, SpikeRes, 16)

(* for_mt on a pool of one thread: the iterations run in index order *)
DoWorkerInOrder == pending # {} /\ BlurWorker(MinOfSet(pending))

NextSpike == DoInitSpike \/ SweepRow \/ DoWorkerInOrder \/ EndPass

SpecSpike == InitSpike /\ [][NextSpike]_vars

-----------------------------------------------------------------------------
(* The far-texture atlas (rts/Rendering/FarTextureHandler.cpp) *)

NUM_ICON_ORIENTATIONS == 8

iconSize == [x |-> 32 * 2, y |-> 32 * 2]

(* the smooth mesh takes no part in a call of the far-texture handler *)
SmoothMeshUnchanged ==
    /\ HeightSourceUnchanged
    /\ GeometryUnchanged
    /\ BuildUnchanged
    /\ MeshUnchanged
    /\ UNCHANGED <<pc, life, last, nInits, nEdits>>

(* CFarTextureHandler::CFarTextureHandler *)
FarTextureHandler(maxTexSize) ==
    /\ maxTextureSize = maxTexSize
    /\ texSize = [x |-> maxTexSize, y |-> iconSize.y]
    /\ usedFarTextures = 0
    /\ iconCache = << >>
    /\ farCall = NoFarCall
    /\ atlasFull = FALSE
    /\ createQueue = << >>
    /\ renderQueue = << >>
    /\ drawn = << >>

(* (col, row) of a sprite in the atlas *)
GetTextureCoordsInt(ts, farTextureNum, orientation) ==
    LET texnum == (farTextureNum * NUM_ICON_ORIENTATIONS) + orientation
        r == texnum \div (ts.x \div iconSize.x)
    IN [x |-> texnum - r * (ts.x \div iconSize.x), y |-> r]

(* the while loop of CheckResizeAtlas: the height the atlas is grown to *)
RECURSIVE GrowAtlas(_, _, _, _)
GrowAtlas(tx, ty, used, maxTexSizeY) ==
    IF ty <= maxTexSizeY
    THEN LET maxSprites == (tx \div iconSize.x) * (ty \div iconSize.y)
             numSprites == used * NUM_ICON_ORIENTATIONS
         IN IF numSprites + NUM_ICON_ORIENTATIONS <= maxSprites
            THEN ty
            ELSE GrowAtlas(tx, ty * 2, used, maxTexSizeY)
    ELSE ty

CheckResizeAtlas(ts, used, maxTexSizeY) ==
    LET oldTexSizeY == ts.y
        y == GrowAtlas(ts.x, ts.y, used, maxTexSizeY)
    IN [texSize |-> [ts EXCEPT !.y = y],
        ret |-> IF y = oldTexSizeY THEN TRUE
                ELSE IF y > maxTexSizeY THEN FALSE
                ELSE TRUE]

(* iconCache after the two "make space" resizes for (team, model) *)
MakeSpace(cache, team, model) ==
    LET teams == IF team >= Size(cache)
                 THEN Resize(cache, Max2(Size(cache) * 2, team + 1), << >>)
                 ELSE cache
    IN IF model >= Size(teams[team])
       THEN [teams EXCEPT ![team] =
                Resize(teams[team], Max2(Size(teams[team]) * 2, model + 1), 0)]
       ELSE teams

CreateFarTexture(obj) ==
    LET cache == MakeSpace(iconCache, obj.team, obj.model)
        check == CheckResizeAtlas(texSize, usedFarTextures, maxTextureSize)
        call == [NoFarCall EXCEPT !.op = "CreateFarTexture",
                                  !.team = obj.team, !.model = obj.model]
    IN /\ maxTextureSize > 0
       /\ IF cache[obj.team][obj.model] # 0
          THEN /\ iconCache' = cache
               /\ farCall' = [call EXCEPT !.atlas = "cached"]
               /\ UNCHANGED <<texSize, usedFarTextures, atlasFull>>
          ELSE IF ~check.ret
          THEN /\ iconCache' = cache
               /\ texSize' = check.texSize
               /\ atlasFull' = TRUE
               /\ farCall' = [call EXCEPT !.atlas = "false"]
               /\ UNCHANGED usedFarTextures
          ELSE /\ texSize' = check.texSize
               /\ usedFarTextures' = usedFarTextures + 1
               /\ iconCache' = [cache EXCEPT ![obj.team][obj.model] = usedFarTextures + 1]
               /\ farCall' = [call EXCEPT !.atlas = "true", !.slot = usedFarTextures]
               /\ UNCHANGED atlasFull
       /\ UNCHANGED <<maxTextureSize, fboValid, createQueue, renderQueue, drawn>>
       /\ SmoothMeshUnchanged
       /\ CallInsUnchanged

Teams == 0..1

ModelIds == 0..2

MaxTextureSizes == {128, 256, 512}

InitFar ==
    /\ HeightSource({Ramp})
    /\ Fresh
    /\ \E m \in MaxTextureSizes : FarTextureHandler(m)
    /\ fboValid = TRUE
    /\ NoCallIns

DoCreateFarTexture ==
    \E t \in Teams, m \in ModelIds : CreateFarTexture([team |-> t, model |-> m])

NextFar == DoCreateFarTexture

SpecFar == InitFar /\ [][NextFar]_vars

-----------------------------------------------------------------------------
(* The far-texture queues: Queue, Draw, DrawFarTexture *)

MAX_CREATE_QUEUE_SIZE == 8

(* a CSolidObject as the handler sees it *)
SolidObject(team, model, heading) == [team |-> team, model |-> model, heading |-> heading]

HaveFarIcon(cache, obj) ==
    /\ Size(cache) > obj.team
    /\ Size(cache[obj.team]) > obj.model
    /\ cache[obj.team][obj.model] # 0

(* the members CreateFarTexture works on *)
Members ==
    [texSize |-> texSize, usedFarTextures |-> usedFarTextures,
     iconCache |-> iconCache, atlasFull |-> atlasFull]

(* CreateFarTexture as Draw calls it: the members after the call *)
CreateFarTextureOn(h, obj) ==
    LET cache == MakeSpace(h.iconCache, obj.team, obj.model)
        check == CheckResizeAtlas(h.texSize, h.usedFarTextures, maxTextureSize)
    IN IF cache[obj.team][obj.model] # 0
       THEN [h EXCEPT !.iconCache = cache]
       ELSE IF ~check.ret
       THEN [h EXCEPT !.iconCache = cache, !.texSize = check.texSize, !.atlasFull = TRUE]
       ELSE [h EXCEPT !.texSize = check.texSize,
                      !.usedFarTextures = h.usedFarTextures + 1,
                      !.iconCache = [cache EXCEPT ![obj.team][obj.model] = h.usedFarTextures + 1]]

(* the first loop of Draw over createQueue[i..] *)
RECURSIVE CreateQueued(_, _, _)
CreateQueued(h, queue, i) ==
    IF i > Len(queue) THEN h
    ELSE CreateQueued(CreateFarTextureOn(h, queue[i]), queue, i + 1)

USHRT_MAX_ == (2 ^ 16) - 1

orientStep == USHRT_MAX_ \div NUM_ICON_ORIENTATIONS

(* the orientation index of DrawFarTexture; from the second line on orient
   is not negative, so % and / of C are those of the naturals *)
Orient(camHeading, objHeading) ==
    LET o1 == camHeading - objHeading
        o2 == o1 + USHRT_MAX_
        o3 == o2 + (orientStep \div 2)
        o4 == o3 % USHRT_MAX_
    IN o4 \div orientStep

(* DrawFarTexture: what it reads of iconCache and which sprite it selects;
   stray is what a read outside iconCache delivers *)
DrawFarTexture(h, obj, camHeading, stray) ==
    LET inCache == /\ obj.team < Size(h.iconCache)
                   /\ obj.model < Size(h.iconCache[obj.team])
        farTexNum == IF inCache THEN h.iconCache[obj.team][obj.model] ELSE stray
        orient == Orient(camHeading, obj.heading)
        pos == GetTextureCoordsInt(h.texSize, farTexNum - 1, orient)
    IN IF farTexNum = 0
       THEN [team |-> obj.team, model |-> obj.model, heading |-> obj.heading, inCache |-> inCache, farTexNum |-> 0,
             quad |-> FALSE, orient |-> 0, pos |-> [x |-> 0, y |-> 0]]
       ELSE [team |-> obj.team, model |-> obj.model, heading |-> obj.heading, inCache |-> inCache, farTexNum |-> farTexNum,
             quad |-> TRUE, orient |-> orient, pos |-> pos]

(* Queue without the limit on the objects created per frame *)
Queue_NoLimit(obj) ==
    /\ maxTextureSize > 0
    /\ IF ~fboValid
       THEN UNCHANGED <<createQueue, renderQueue>>
       ELSE IF HaveFarIcon(iconCache, obj)
       THEN /\ renderQueue' = Append(renderQueue, obj)
            /\ UNCHANGED createQueue
       ELSE /\ createQueue' = Append(createQueue, obj)
            /\ renderQueue' = Append(renderQueue, obj)
    /\ farCall' = [NoFarCall EXCEPT !.op = "Queue", !.team = obj.team, !.model = obj.model]
    /\ drawn' = << >>
    /\ UNCHANGED <<maxTextureSize, texSize, usedFarTextures, iconCache, atlasFull, fboValid>>
    /\ SmoothMeshUnchanged
    /\ CallInsUnchanged

(* Queue that leaves the creation of the far texture out *)
Queue_RenderOnly(obj) ==
    /\ maxTextureSize > 0
    /\ IF ~fboValid
       THEN UNCHANGED <<createQueue, renderQueue>>
       ELSE IF HaveFarIcon(iconCache, obj)
       THEN /\ renderQueue' = Append(renderQueue, obj)
            /\ UNCHANGED createQueue
       ELSE IF Len(createQueue) = MAX_CREATE_QUEUE_SIZE
       THEN UNCHANGED <<createQueue, renderQueue>>
       ELSE /\ renderQueue' = Append(renderQueue, obj)
            /\ UNCHANGED createQueue
    /\ farCall' = [NoFarCall EXCEPT !.op = "Queue", !.team = obj.team, !.model = obj.model]
    /\ drawn' = << >>
    /\ UNCHANGED <<maxTextureSize, texSize, usedFarTextures, iconCache, atlasFull, fboValid>>
    /\ SmoothMeshUnchanged
    /\ CallInsUnchanged

Queue(obj) ==
    /\ maxTextureSize > 0
    /\ IF ~fboValid
       THEN UNCHANGED <<createQueue, renderQueue>>
       ELSE IF HaveFarIcon(iconCache, obj)
       THEN /\ renderQueue' = Append(renderQueue, obj)
            /\ UNCHANGED createQueue
       ELSE IF Len(createQueue) = MAX_CREATE_QUEUE_SIZE
       THEN UNCHANGED <<createQueue, renderQueue>>
       ELSE /\ createQueue' = Append(createQueue, obj)
            /\ renderQueue' = Append(renderQueue, obj)
    /\ farCall' = [NoFarCall EXCEPT !.op = "Queue", !.team = obj.team, !.model = obj.model]
    /\ drawn' = << >>
    /\ UNCHANGED <<maxTextureSize, texSize, usedFarTextures, iconCache, atlasFull, fboValid>>
    /\ SmoothMeshUnchanged
    /\ CallInsUnchanged

StrayIcons == 0..1

Draw(camHeading) ==
    LET h == CreateQueued(Members, createQueue, 1)
    IN /\ maxTextureSize > 0
       /\ texSize' = h.texSize
       /\ usedFarTextures' = h.usedFarTextures
       /\ iconCache' = h.iconCache
       /\ atlasFull' = h.atlasFull
       /\ \E stray \in StrayIcons :
             drawn' = [i \in 1..Len(renderQueue) |->
                         DrawFarTexture(h, renderQueue[i], camHeading, stray)]
       /\ renderQueue' = << >>
       /\ createQueue' = << >>
       /\ farCall' = [NoFarCall EXCEPT !.op = "Draw"]
       /\ UNCHANGED <<maxTextureSize, fboValid>>
       /\ SmoothMeshUnchanged
       /\ CallInsUnchanged

(* frames of queued objects of different teams and models *)

MaxQueued == 9

QueueObjects == {SolidObject(0, 2, 0), SolidObject(1, 0, 0)}

QueueTextureSizes == {128, 256}

InitQueue ==
    /\ HeightSource({Ramp})
    /\ Fresh
    /\ \E m \in QueueTextureSizes : FarTextureHandler(m)
    /\ fboValid \in BOOLEAN
    /\ NoCallIns

DoQueue == \E obj \in QueueObjects : Len(renderQueue) < MaxQueued /\ Queue(obj)

DoDraw == Draw(0)

NextQueue == DoQueue \/ DoDraw

SpecQueue == InitQueue /\ [][NextQueue]_vars

(* frames of one model seen from different sides *)

ObjHeadings == {-32768, -1, 0, 4096, 4103, 32767}

CamHeadings == {-32768, 0, 1, 28665, 32767}

HeadingObjects == {SolidObject(0, 0, heading) : heading \in ObjHeadings}

InitOrient ==
    /\ HeightSource({Ramp})
    /\ Fresh
    /\ FarTextureHandler(256)
    /\ fboValid = TRUE
    /\ NoCallIns

MaxHeadingsQueued == 2

DoQueueHeading == \E obj \in HeadingObjects : Len(renderQueue) < MaxHeadingsQueued /\ Queue(obj)

DoDrawHeading == \E camHeading \in CamHeadings : Draw(camHeading)

NextOrient == DoQueueHeading \/ DoDrawHeading

SpecOrient == InitOrient /\ [][NextOrient]_vars

-----------------------------------------------------------------------------
(* The call-in handler (rts/Lua/LuaCallInHandler.h) *)

MaxHandles == 3

LuaHandles == {"luaRules", "luaGaia", "luaUI"}

(* a CallInList: a vector of handles, indexed from 0 *)
CallInLists == UNION {[0..(n - 1) -> LuaHandles] : n \in 0..MaxHandles}

(* the loop of DefaultCommand taken in list order *)
RECURSIVE DefaultCommandUp(_, _, _, _)
DefaultCommandUp(list, answers, i, consulted) ==
    IF i < Size(list)
    THEN IF answers[list[i]]
         THEN [ret |-> TRUE, consulted |-> Append(consulted, i)]
         ELSE DefaultCommandUp(list, answers, i + 1, Append(consulted, i))
    ELSE [ret |-> FALSE, consulted |-> consulted]

(* the loop of DefaultCommand from index i down: its return value and the
   indices of the handles it calls, in the order of the calls *)
RECURSIVE DefaultCommandLoop(_, _, _, _)
DefaultCommandLoop(list, answers, i, consulted) ==
    IF i >= 0
    THEN IF answers[list[i]]
         THEN [ret |-> TRUE, consulted |-> Append(consulted, i)]
         ELSE DefaultCommandLoop(list, answers, i - 1, Append(consulted, i))
    ELSE [ret |-> FALSE, consulted |-> consulted]

CallInsOnly == SmoothMeshUnchanged /\ FarTexturesUnchanged /\ UNCHANGED listDefaultCommand

(* DefaultCommand consulting the handles from the front of the list *)
DefaultCommand_Forward(answers) ==
    LET r == DefaultCommandUp(listDefaultCommand, answers, 0, << >>)
    IN /\ luaCall' = [op |-> "DefaultCommand", answers |-> answers,
                      consulted |-> r.consulted, ret |-> r.ret]
       /\ CallInsOnly

(* answers[lh] is what lh->DefaultCommand(unit, feature, cmd) returns *)
DefaultCommand(answers) ==
    LET count == Size(listDefaultCommand)
        r == DefaultCommandLoop(listDefaultCommand, answers, count - 1, << >>)
    IN /\ luaCall' = [op |-> "DefaultCommand", answers |-> answers,
                      consulted |-> r.consulted, ret |-> r.ret]
       /\ CallInsOnly

InitCallIns ==
    /\ HeightSource({Ramp})
    /\ Fresh
    /\ NoFarTextureHandler
    /\ listDefaultCommand \in CallInLists
    /\ luaCall = NoLuaCall

DoDefaultCommand == \E answers \in [LuaHandles -> BOOLEAN] : DefaultCommand(answers)

NextCallIns == DoDefaultCommand

SpecCallIns == InitCallIns /\ [][NextCallIns]_vars

-----------------------------------------------------------------------------
(* Properties *)

Height(x, y) == hmap[<<x * resolution, y * resolution>>]

Cell(x, y) == mesh[x + y * maxx]

(* the running or last build has completed k passes and has not aborted *)
Passed(k) == pc # "fatal" /\ stage >= k

SweepDone == Passed(1) /\ stage = 1

(* the maximum of the true height over the window of cell (x, y), columns
   clamped to [0, lastcol] and rows to [0, maxy] *)
WindowMax(x, y, lastcol) ==
    MaxOfSet({Height(x1, y1) :
                 x1 \in Max2(0, x - WinSize)..Min2(lastcol, x + WinSize),
                 y1 \in Max2(0, y - WinSize)..Min2(maxy, y + WinSize)})

(* C1, as stated: after the sliding-window maximum pass alone, every cell
   (x, y) the pass writes holds the maximum of the true height over the
   window [x-winSize, x+winSize] x [y-winSize, y+winSize] with the columns
   clamped to [0, maxx] and the rows to [0, maxy]. *)
C1_WindowClampedToMaxx ==
    SweepDone =>
        \A x \in 0..(maxx - 1), y \in 0..maxy : Cell(x, y) = WindowMax(x, y, maxx)

(* C1, amended: after the sliding-window maximum pass alone, every cell
   (x, y) the pass writes (0 <= x < maxx, 0 <= y <= maxy) holds the maximum
   of the true height over the window with the columns clamped to
   [0, maxx-1] and the rows to [0, maxy]: column maxx is never looked at. *)
C1_WindowMaxExact ==
    SweepDone =>
        \A x \in 0..(maxx - 1), y \in 0..maxy : Cell(x, y) = WindowMax(x, y, maxx - 1)

(* C1, witness: the pass is over, and some cell whose window is cut at the
   right border took its value from a neighbour while another cell stays
   below the highest terrain. *)
C1_Witness ==
    /\ SweepDone
    /\ WinSize >= 1
    /\ \E x \in 0..(maxx - 1), y \in 0..maxy :
           x + WinSize >= maxx /\ Cell(x, y) > Height(x, y)
    /\ \E x \in 0..(maxx - 1), y \in 0..maxy : Cell(x, y) < currMaxHeight

InRange(v) == currMinHeight <= v /\ v <= currMaxHeight

(* C2, as stated: from the end of the windowed-max pass on, at every stage
   of the build, every cell the build has written, (x, y) with x < maxx and
   y <= maxy, is at or above the true height at (x, y). *)
C2_LowerBoundAllRows ==
    Passed(1) => \A x \in 0..(maxx - 1), y \in 0..maxy : Cell(x, y) >= Height(x, y)

(* C2, amended: from the end of the windowed-max pass on, at every stage of
   the build, every cell (x, y) with x < maxx and y < maxy (the cells the
   blur passes write and GetHeight reads) is at or above the true height at
   (x, y); row maxy is written by the windowed-max pass only. *)
C2_LowerBound ==
    Passed(1) => \A x \in 0..(maxx - 1), y \in 0..(maxy - 1) : Cell(x, y) >= Height(x, y)

(* C2, witness: a blur pass is over; one cell sits exactly on its true height
   although the terrain is not at its lowest there, another sits above. *)
C2_Witness ==
    /\ Passed(2)
    /\ \E x \in 0..(maxx - 1), y \in 0..(maxy - 1) :
           Cell(x, y) = Height(x, y) /\ Height(x, y) > currMinHeight
    /\ \E x \in 0..(maxx - 1), y \in 0..(maxy - 1) : Cell(x, y) > Height(x, y)

(* C3, as stated: from the end of the windowed-max pass on, every element of
   the mesh array, all (maxx+1)*(maxy+1) of them, lies within
   [minHeight, maxHeight]. *)
C3_RangeWholeArray ==
    Passed(1) => \A i \in DOMAIN mesh : InRange(mesh[i])

(* C3, amended: from the end of the windowed-max pass on (after it, after
   each blur pass and after the final copy), every mesh element at a flat
   index x + y*maxx with x < maxx and y < maxy lies within
   [minHeight, maxHeight]; the other maxx + maxy + 1 elements of the array
   hold a windowed maximum or the 0.0 of the resize. *)
C3_RangeOfCells ==
    Passed(1) => \A x \in 0..(maxx - 1), y \in 0..(maxy - 1) : InRange(Cell(x, y))

(* C3, witness: a build has finished on a terrain that is not flat and lies
   wholly above 0; an element past the last written one still holds 0. *)
C3_Witness ==
    /\ life = "ready"
    /\ stage = 1 + 2 * blurPassesCount
    /\ 0 < currMinHeight
    /\ currMinHeight < currMaxHeight
    /\ \E x \in 0..(maxx - 1), y \in 0..(maxy - 1) : Cell(x, y) < currMaxHeight
    /\ \E i \in DOMAIN mesh : mesh[i] = 0

-----------------------------------------------------------------------------
(* Edits *)

EditOps == {"SetHeight", "AddHeight", "SetMaxHeight"}

Edited == {j \in DOMAIN mesh : mesh[j] # origMesh[j]}

(* C4: a step that is an edit at flat index i (SetHeight, AddHeight or
   SetMaxHeight, i = last'.a) changes no mesh element other than mesh[i],
   leaves origMesh and maxx, maxy, resolution as they were, and keeps the
   array's size; and after any sequence of edits that follows a completed
   build, mesh differs from origMesh (the built values) in at most as many
   elements as there were edits. *)
C4_EditFrame ==
    /\ [][nEdits' # nEdits =>
            /\ last'.op \in EditOps
            /\ last'.a \in DOMAIN mesh
            /\ DOMAIN mesh' = DOMAIN mesh
            /\ \A j \in DOMAIN mesh : j # last'.a => mesh'[j] = mesh[j]
            /\ mesh'[last'.a] = last'.ret
            /\ origMesh' = origMesh
            /\ <<maxx, maxy, resolution>>' = <<maxx, maxy, resolution>>]_vars
    /\ [](life = "ready" => Cardinality(Edited) <= nEdits)

(* C4, witness: a second edit, an AddHeight, has changed its cell, and the
   mesh now differs from the built values in exactly the two edited cells. *)
C4_Witness ==
    /\ last.op = "AddHeight"
    /\ nEdits = 2
    /\ life = "ready"
    /\ last.a \in Edited
    /\ Cardinality(Edited) = 2

-----------------------------------------------------------------------------
(* A whole build, as one function of the arguments of Init *)

(* the loop of line 410, from row y on *)
RECURSIVE SweepFrom(_, _, _, _, _, _, _, _)
SweepFrom(y, mxx, mxy, winSize, res, cm, mr, m) ==
    LET adv == AdvanceMaximaRows(y, mxx, res, cm, mr)
        rad == FindRadialMaximum(y, mxx, winSize, res, cm, m)
        fix == FixRemainingMaxima(y, mxx, mxy, winSize, res, cm, adv.rows)
    IN IF ~adv.ok THEN [mesh |-> m, ok |-> FALSE]
       ELSE IF ~rad.ok THEN [mesh |-> m, ok |-> FALSE]
       ELSE IF ~fix.ok THEN [mesh |-> rad.mesh, ok |-> FALSE]
       ELSE IF y = mxy THEN [mesh |-> rad.mesh, ok |-> TRUE]
       ELSE SweepFrom(y + 1, mxx, mxy, winSize, res, fix.cols, fix.rows, rad.mesh)

(* BlurHorizontal over all rows from y on *)
RECURSIVE HorizontalPass(_, _, _, _, _, _, _, _)
HorizontalPass(y, mxx, mxy, blurSize, res, kernel, m, smoothed) ==
    IF y >= mxy THEN smoothed
    ELSE HorizontalPass(y + 1, mxx, mxy, blurSize, res, kernel, m,
             BlurHorizontal(y, mxx, mxy, blurSize, res, kernel, m, smoothed))

(* BlurVertical over all columns from x on *)
RECURSIVE VerticalPass(_, _, _, _, _, _, _, _)
VerticalPass(x, mxx, mxy, blurSize, res, kernel, m, smoothed) ==
    IF x >= mxx THEN smoothed
    ELSE VerticalPass(x + 1, mxx, mxy, blurSize, res, kernel, m,
             BlurVertical(x, mxx, mxy, blurSize, res, kernel, m, smoothed))

(* the loop of line 421: a and b are mesh and origMesh *)
RECURSIVE BlurLoop(_, _, _, _, _, _, _, _)
BlurLoop(n, mxx, mxy, blurSize, res, kernel, a, b) ==
    IF n = 0 THEN [mesh |-> a, origMesh |-> b]
    ELSE LET b1 == HorizontalPass(0, mxx, mxy, blurSize, res, kernel, a, b)
             a1 == VerticalPass(0, mxx, mxy, blurSize, res, kernel, b1, a)
         IN BlurLoop(n - 1, mxx, mxy, blurSize, res, kernel, a1, b1)

(* MakeSmoothMesh on empty vectors *)
MakeSmoothMesh(mxx, mxy, res, radius) ==
    LET winSize == radius \div res
        blurSize == Max2(1, winSize \div 2)
        n == (mxx + 1) * (mxy + 1)
        boot == FindMaximumColumnHeights(mxx, mxy, winSize, res,
                    [x \in 0..mxx |-> NegFltMax], [x \in 0..mxx |-> -1])
        swept == SweepFrom(0, mxx, mxy, winSize, res, boot.cols, boot.rows,
                           Resize(<< >>, n, 0))
        blurred == BlurLoop(blurPassesCount, mxx, mxy, blurSize, res,
                            Kernels[blurSize], swept.mesh, Resize(<< >>, n, 0))
    IN IF swept.ok
       THEN [mesh |-> blurred.mesh, origMesh |-> blurred.mesh, ok |-> TRUE]
       ELSE [mesh |-> swept.mesh, origMesh |-> Resize(<< >>, n, 0), ok |-> FALSE]

(* Init(mx, my, res, smoothRad) on a freshly constructed instance *)
FreshInit(mx, my, res, smoothRad) ==
    MakeSmoothMesh((mx \div res) + 1, (my \div res) + 1, res, ClampRadius(smoothRad))

LastInit == FreshInit(fmaxx, fmaxy, resolution, radArg)

(* C5, as stated: an Init call completes whatever came before it, also when
   no Kill was made since the previous Init; here, the necessary part that
   the call does not end in the assertion-failure state. *)
C5_InitAlwaysRebuilds == last.op = "Init" => pc # "fatal"

(* C5, amended: Init completes a build only on an instance whose mesh is
   empty (freshly constructed, or after Kill); whatever builds, edits and
   Kills came before, that build ends as the same call ends on a fresh
   instance (aborting in the sweep if and only if the fresh one does) and
   leaves mesh and origMesh equal to the fresh instance's.  An Init on a
   non-empty mesh (no Kill since the last build) fails assert(mesh.empty())
   and leaves the old mesh in place. *)
C5_InitOnEmptyRebuilds ==
    /\ last.op = "Init" =>
          /\ pc = "fatal" <=> life = "ready"
          /\ pc = "sweep" <=> life = "building"
          /\ pc \in {"fatal", "sweep"}
    /\ (last.op = "endpass" /\ life = "ready") =>
          /\ LastInit.ok
          /\ mesh = LastInit.mesh
          /\ origMesh = LastInit.origMesh
    /\ (last.op = "sweep" /\ pc = "fatal") => ~LastInit.ok

(* C5, witness: a second Init, made after an edit and a Kill, has just
   completed its build. *)
C5_Witness ==
    /\ last.op = "endpass"
    /\ life = "ready"
    /\ nInits = 2
    /\ nEdits >= 1
    /\ mesh = LastInit.mesh

-----------------------------------------------------------------------------
(* Queries *)

QueryOps == {"GetHeight", "GetHeightAboveWater"}

(* what a query at (x, y) returns on heightmap m under the current geometry *)
Answer(op, x, y, m) ==
    LET v == Interpolate(x, y, maxx, maxy, resolution, m).val
    IN IF op = "GetHeightAboveWater" THEN Max2(0, v) ELSE v

(* C6, as stated: the precondition of a query does not hold while a build
   is running, so no query that interleaves with a build returns a value. *)
C6_BuildAtomic == (last.op \in QueryOps /\ last.returned) => ~last.building

(* C6, amended: the build is not atomic for readers.  mesh is non-empty
   from the resize at the start of MakeSmoothMesh on, through the sweep and
   every blur pass, so a query that interleaves with the build passes its
   assertion and returns the interpolation of mesh as it stands at that
   moment. *)
C6_QueryDuringBuildReturns ==
    /\ life = "building" => mesh # << >>
    /\ (last.op \in QueryOps /\ last.building) =>
          /\ last.returned
          /\ last.reads \subseteq DOMAIN mesh
          /\ last.ret = Answer(last.op, last.a, last.b, mesh)

(* C6, witness: a GetHeight made during the sweep of a build that will
   complete has returned a value that differs from the one the completed
   mesh gives at the same point. *)
C6_Witness ==
    /\ last.op = "GetHeight"
    /\ last.building
    /\ last.returned
    /\ pc = "sweep"
    /\ LastInit.ok
    /\ last.ret # Answer("GetHeight", last.a, last.b, LastInit.mesh)

(* C9: a GetHeight or GetHeightAboveWater call on an instance that was never
   initialised, or that was killed and not initialised since, ends in the
   assertion failure and returns no value; a call made after an Init has
   completed (and before any Kill) returns a value and fails no assertion. *)
C9_QueryOnEmptyMeshFatal ==
    last.op \in QueryOps =>
        /\ life \in {"fresh", "killed"} =>
              /\ mesh = << >>
              /\ pc = "fatal"
              /\ ~last.returned
        /\ life = "ready" =>
              /\ mesh # << >>
              /\ pc = "idle"
              /\ last.returned

(* C9, witness: a query made after a completed Init and a Kill has failed
   the assertion. *)
C9_Witness ==
    /\ last.op \in QueryOps
    /\ life = "killed"
    /\ nInits >= 1
    /\ pc = "fatal"
    /\ ~last.returned

(* the world coordinate nearest to x inside the grid, whose last line is
   mx - 1 *)
Nearest(x, res, mx) == IF x < 0 THEN 0 ELSE IF x > (mx - 1) * res THEN (mx - 1) * res ELSE x

(* the flat indices of the corners of the grid square that holds the world
   point (cx, cy), a point inside the grid *)
Corners(cx, cy) ==
    {gx + gy * maxx :
        gx \in {cx \div resolution, Min2((cx \div resolution) + 1, maxx - 1)},
        gy \in {cy \div resolution, Min2((cy \div resolution) + 1, maxy - 1)}}

(* C10: a GetHeight at any world coordinate, negative ones and ones beyond
   the world extent included, on a non-empty mesh fails no assertion,
   returns what GetHeight returns at the nearest coordinate inside the grid
   [0, (maxx-1)*resolution] x [0, (maxy-1)*resolution], and reads only mesh
   elements that are corners of the grid square holding that point. *)
C10_OutOfBoundsClamped ==
    (last.op = "GetHeight" /\ life = "ready") =>
        LET cx == Nearest(last.a, resolution, maxx)
            cy == Nearest(last.b, resolution, maxy)
        IN /\ pc = "idle"
           /\ last.returned
           /\ last.ret = Answer("GetHeight", cx, cy, mesh)
           /\ last.reads \subseteq Corners(cx, cy)
           /\ last.reads \subseteq DOMAIN mesh

(* C10, witness: a GetHeight left of the grid and beyond its last row has
   returned, and the value differs from the one at the grid's origin. *)
C10_Witness ==
    /\ last.op = "GetHeight"
    /\ life = "ready"
    /\ last.returned
    /\ last.a < 0
    /\ last.b > fmaxy
    /\ last.ret # Answer("GetHeight", 0, 0, mesh)

-----------------------------------------------------------------------------
(* The arguments of Init *)

(* C8, as stated: an Init called with smoothRadius <= 0 ends in the
   assertion-failure state and builds no mesh. *)
C8_BadRadiusFatal ==
    (last.op = "Init" /\ radArg <= 0) => (pc = "fatal" /\ mesh = << >>)

(* C8, amended: Init does not reject a smoothRadius <= 0 (nor any radius
   below 1): it replaces it by 1, starts the build, and the build ends as
   the build for smoothRadius = 1 ends on a fresh instance, leaving the same
   mesh and origMesh when it completes.  (Resolutions are positive and
   extents non-negative here.) *)
C8_BadRadiusClampedToOne ==
    (nInits >= 1 /\ radArg < 1) =>
        LET one == FreshInit(fmaxx, fmaxy, resolution, 1)
        IN /\ smoothRadius = 1
           /\ (last.op = "Init" /\ life # "ready") =>
                 (pc = "sweep" /\ mesh # << >>)
           /\ (last.op = "endpass" /\ life = "ready") =>
                 (one.ok /\ mesh = one.mesh /\ origMesh = one.origMesh)
           /\ (last.op = "sweep" /\ pc = "fatal") => ~one.ok

(* C8, witness: an Init called with a negative smoothRadius has completed
   its build, and the mesh is not flat. *)
C8_Witness ==
    /\ radArg < 0
    /\ last.op = "endpass"
    /\ life = "ready"
    /\ smoothRadius = 1
    /\ \E i, j \in DOMAIN mesh : mesh[i] # mesh[j]

-----------------------------------------------------------------------------
(* The workers of a blur pass *)

Blurring == pc \in {"blurH", "blurV"}

Workers == IF pc = "blurH" THEN 0..(maxy - 1) ELSE 0..(maxx - 1)

Finished == Workers \ pending

(* the cells of row i (horizontal pass) or of column i (vertical pass) *)
OwnLine(i) ==
    IF pc = "blurH" THEN {x + i * maxx : x \in 0..(maxx - 1)}
    ELSE {i + y * maxx : y \in 0..(maxy - 1)}

WrittenBy(i) == {w[2] : w \in {v \in writes : v[1] = i}}

SourceReads(i) ==
    IF pc = "blurH" THEN HorizontalReads(i, maxx, BlurSize)
    ELSE VerticalReads(i, maxx, maxy, BlurSize)

ReadsBack(i) ==
    IF pc = "blurH" THEN HorizontalReadsBack(i, maxx)
    ELSE VerticalReadsBack(i, maxx, maxy)

(* the value the pass gives cell j of line i, from the source buffer alone *)
PassValue(i, j) ==
    IF pc = "blurH"
    THEN HorizontalCell(j - i * maxx, i, maxx, BlurSize, resolution, Kernels[BlurSize], mesh)
    ELSE VerticalCell(i, (j - i) \div maxx, maxx, maxy, BlurSize, resolution,
                      Kernels[BlurSize], mesh)

(* C7: in a blur pass, whatever the order in which the workers run: the
   worker of row y (horizontal) or column x (vertical) writes only
   destination cells of its own row or column; no destination cell is
   written by two workers; the input of every convolution is read from the
   source buffer (mesh), inside the array, and a worker step leaves the
   source buffer unchanged; the only destination elements a worker reads are
   ones it has written itself; every written cell holds the value determined
   by the source buffer alone; and the buffers are swapped only when no
   worker of the pass is left. *)
C7_BlurPassRaceFree ==
    /\ [](Blurring =>
            /\ {w[1] : w \in writes} = Finished
            /\ \A v, w \in writes : v[2] = w[2] => v[1] = w[1]
            /\ \A i \in Finished :
                  /\ WrittenBy(i) = OwnLine(i)
                  /\ ReadsBack(i) \subseteq WrittenBy(i)
                  /\ SourceReads(i) \subseteq DOMAIN mesh
                  /\ \A j \in OwnLine(i) : origMesh[j] = PassValue(i, j))
    /\ [][(Blurring /\ pending' # pending /\ stage' = stage) =>
            /\ mesh' = mesh
            /\ \E i \in pending :
                  /\ pending' = pending \ {i}
                  /\ \A j \in DOMAIN origMesh :
                         origMesh'[j] # origMesh[j] => j \in OwnLine(i)]_vars
    /\ [][(Blurring /\ (mesh' # mesh \/ stage' # stage)) => pending = {}]_vars

(* C7, witness: the second vertical pass has run to its end with at least
   two workers, which wrote different cells, and the pass changed a value. *)
C7_Witness ==
    /\ pc = "blurV"
    /\ numBlurs = 1
    /\ pending = {}
    /\ \E v, w \in writes : v[1] # w[1] /\ v[2] # w[2]
    /\ \E j \in DOMAIN mesh : origMesh[j] # mesh[j]

-----------------------------------------------------------------------------
(* The layout of the mesh *)

(* the grid cell a GetHeight at a cell's world position asked for *)
AskedX == last.a \div resolution

AskedY == last.b \div resolution

AtCell ==
    /\ last.op = "GetHeight"
    /\ last.returned
    /\ pc = "idle"
    /\ life = "ready"

(* an interpolated height is a numerator over resolution^2 *)
AsReturned(h) == h * resolution * resolution

(* C11, as stated: the mesh has (maxx+1)*(maxy+1) elements and GetHeight at
   the world position of cell (x, y) returns the element at flat index
   x + y*(maxx+1), edited or not. *)
C11_StrideMaxxPlusOne ==
    AtCell =>
        /\ Size(mesh) = (maxx + 1) * (maxy + 1)
        /\ last.ret = AsReturned(mesh[AskedX + AskedY * (maxx + 1)])

(* C11, amended: the mesh has (maxx+1)*(maxy+1) elements, but cell (x, y),
   0 <= x < maxx, 0 <= y < maxy, is the element at flat index x + y*maxx:
   GetHeight at the cell's world position returns that element, whatever
   edits were made to the array since the build, and reads no other. *)
C11_StrideMaxx ==
    AtCell =>
        /\ Size(mesh) = (maxx + 1) * (maxy + 1)
        /\ last.ret = AsReturned(mesh[AskedX + AskedY * maxx])
        /\ last.reads \subseteq
              {gx + gy * maxx : gx \in AskedX..(AskedX + 1), gy \in AskedY..(AskedY + 1)}

(* C11, witness: GetHeight at a cell of a row y >= 1 has returned the value
   an edit stored at index x + y*maxx, and the element at x + y*(maxx+1)
   holds another value. *)
C11_Witness ==
    /\ AtCell
    /\ AskedY >= 1
    /\ nEdits >= 1
    /\ mesh[AskedX + AskedY * maxx] # origMesh[AskedX + AskedY * maxx]
    /\ last.ret = AsReturned(mesh[AskedX + AskedY * maxx])
    /\ mesh[AskedX + AskedY * (maxx + 1)] # mesh[AskedX + AskedY * maxx]

-----------------------------------------------------------------------------
(* The values the edits store and return *)

IsEdit == nEdits' # nEdits

(* C12: an edit at index i with argument h stores a value in mesh[i] and
   returns the stored value: h for SetHeight, the old value plus h for
   AddHeight, the larger of the old value and h for SetMaxHeight, which
   therefore never lowers the cell; and a SetMaxHeight that repeats the
   previous call (same index, same h) changes nothing and returns the same
   value. *)
C12_EditReturnsNewValue ==
    [][IsEdit =>
        LET i == last'.a
            h == last'.b
        IN /\ last'.returned
           /\ last'.ret = mesh'[i]
           /\ last'.op = "SetHeight" => mesh'[i] = h
           /\ last'.op = "AddHeight" => mesh'[i] = mesh[i] + h
           /\ last'.op = "SetMaxHeight" =>
                 /\ mesh'[i] = Max2(mesh[i], h)
                 /\ mesh'[i] >= mesh[i]
                 /\ mesh'[i] >= h
                 /\ (last.op = "SetMaxHeight" /\ last.a = i /\ last.b = h) =>
                       (mesh' = mesh /\ last'.ret = last.ret)]_vars

(* C12, witness: a SetMaxHeight with an h below the cell's value has
   returned the cell's value, which is still the built one, after an
   earlier edit elsewhere. *)
C12_Witness ==
    /\ last.op = "SetMaxHeight"
    /\ nEdits = 2
    /\ last.returned
    /\ last.ret > last.b
    /\ last.ret = mesh[last.a]
    /\ mesh[last.a] = origMesh[last.a]
    /\ Cardinality(Edited) = 1

-----------------------------------------------------------------------------
(* A flat terrain *)

Flat == \A p \in World : hmap[p] = currMinHeight /\ hmap[p] = currMaxHeight

Built == life = "ready" /\ pc = "idle" /\ last.op = "endpass"

(* C13, as stated: on a terrain that is H everywhere, the mesh of a completed
   build is H at every element of the array. *)
C13_FlatEverywhere ==
    (Flat /\ Built) => \A i \in DOMAIN mesh : mesh[i] = currMinHeight

(* C13, amended: on a terrain that is H everywhere, H = 0 or not, whenever
   the build gets past the windowed-max pass every cell (x, y) with x < maxx,
   y < maxy is exactly H after that pass and after every blur pass, however
   many have run; when the build completes, the elements at indices below
   maxx*(maxy+1) are exactly H and the remaining maxy+1 elements of the
   array are the 0.0 of the resize. *)
C13_FlatCells ==
    Flat =>
        /\ Passed(1) =>
              \A x \in 0..(maxx - 1), y \in 0..(maxy - 1) : Cell(x, y) = currMinHeight
        /\ Built =>
              \A i \in DOMAIN mesh :
                  mesh[i] = IF i < maxx * (maxy + 1) THEN currMinHeight ELSE 0

(* C13, witness: a build on a flat terrain of negative height, with a
   window of at least two cells, has completed. *)
C13_Witness ==
    /\ Flat
    /\ Built
    /\ currMinHeight < 0
    /\ WinSize >= 2
    /\ mesh[0] = currMinHeight
    /\ mesh[Size(mesh) - 1] = 0

-----------------------------------------------------------------------------
(* The spike scenario: 100 x 100 world, resolution 8, smoothRadius 16 *)

SpikeAt == CHOOSE c \in SpikeCells : hmap = Spike(c[1], c[2])

Near(x, c) == Abs(x - c) <= 2

(* C14, as stated: with the spike at cell (5, 5), after the windowed-max
   pass the mesh is 50 at exactly the cells with |x-5| <= 2 of row 5 and 0
   at every other cell. *)
C14_SpikeRowOnly ==
    (SweepDone /\ SpikeAt = <<5, 5>>) =>
        \A x \in 0..(maxx - 1), y \in 0..maxy :
            Cell(x, y) = IF Near(x, 5) /\ y = 5 THEN SpikeHeight ELSE 0

(* C14, amended: winSize is 2 and the grid has 13 x 13 cells; with the
   spike at cell (sx, sy), after the windowed-max pass the mesh is 50 at
   exactly the cells with |x-sx| <= 2 and |y-sy| <= 2 (for the spike at
   (5, 5): columns 3..7 of the rows 3..7) and 0 at every other element;
   after every blur pass every cell is >= 0 and at most 50, and the cell
   (sx, sy) is exactly 50. *)
C14_SpikeSquare ==
    LET sx == SpikeAt[1]
        sy == SpikeAt[2]
    IN /\ Passed(0) /\ nInits >= 1 => (WinSize = 2 /\ maxx = 13 /\ maxy = 13)
       /\ SweepDone =>
             \A i \in DOMAIN mesh :
                 mesh[i] = IF /\ i < maxx * (maxy + 1)
                              /\ Near(i % maxx, sx)
                              /\ Near(i \div maxx, sy)
                           THEN SpikeHeight ELSE 0
       /\ Passed(2) =>
             /\ \A x \in 0..(maxx - 1), y \in 0..(maxy - 1) :
                    0 <= Cell(x, y) /\ Cell(x, y) <= SpikeHeight
             /\ Cell(sx, sy) = SpikeHeight

(* C14, witness: with the spike at (5, 5) the windowed-max pass has ended
   and the cells (3, 3) and (7, 7) are 50 while (2, 5) and (5, 8) are 0;
   and the build then completes. *)
C14_Witness ==
    /\ SpikeAt = <<5, 5>>
    /\ SweepDone
    /\ Cell(3, 3) = SpikeHeight
    /\ Cell(7, 7) = SpikeHeight
    /\ Cell(2, 5) = 0
    /\ Cell(5, 8) = 0

-----------------------------------------------------------------------------
(* The column windows of the sweep *)

(* the row whose step of the sweep loop was the last step taken *)
SweptRow == IF pc = "sweep" THEN row - 1 ELSE row

WindowLo(y) == Clamp(y - WinSize + 1, 0, maxy)

WindowHi(y) == Clamp(y + WinSize + 1, 0, maxy)

ColumnMax(x, lo, hi) == MaxOfSet({Height(x, y1) : y1 \in lo..hi})

ColumnWindowHolds(y) ==
    \A x \in 0..maxx :
        /\ colsMaxima[x] = ColumnMax(x, WindowLo(y), WindowHi(y))
        /\ maximaRows[x] \in WindowLo(y)..WindowHi(y)
        /\ Height(x, maximaRows[x]) = colsMaxima[x]

(* C15: after FixRemainingMaxima(y), for every row y in 0..maxy and every
   column x in 0..maxx, colsMaxima[x] is the maximum of the true height of
   column x over the rows y-winSize+1 .. y+winSize+1 clamped to [0, maxy],
   and maximaRows[x] is a row of that window where the height is that
   maximum; for every terrain and every winSize >= 0. *)
C15_ColumnWindow == last.op = "sweep" => ColumnWindowHolds(SweptRow)

(* the same, for the rows whose window is not empty before clamping: every
   row when winSize >= 1, every row but the last when winSize = 0 *)
ColumnWindowWhereDefined ==
    (last.op = "sweep" /\ SweptRow - WinSize + 1 <= maxy) => ColumnWindowHolds(SweptRow)

(* C15, the failing case: the last row with winSize = 0; the rescan finds
   no row and the step ends in the assertion failure with colsMaxima at
   its initial value, below every height of the column. *)
C15_LastRowOfEmptyWindow ==
    /\ last.op = "sweep"
    /\ WinSize = 0
    /\ SweptRow = maxy
    /\ pc = "fatal"
    /\ \A x \in 0..maxx : colsMaxima[x] = NegFltMax

(* C16: no step of the sweep fails an assertion, and after the step of row
   y every column has y-winSize+1 <= maximaRows[x] <= y+winSize+1; for
   every row 0..maxy, every grid size and every winSize >= 0. *)
C16_SweepAssertionsHold ==
    last.op = "sweep" =>
        /\ pc # "fatal"
        /\ \A x \in 0..maxx :
              /\ SweptRow - WinSize + 1 <= maximaRows[x]
              /\ maximaRows[x] <= SweptRow + WinSize + 1

(* the same, for the builds with winSize >= 1 and, with winSize = 0, for
   the rows before the last *)
SweepAssertionsHoldBeforeLastRow ==
    (last.op = "sweep" /\ (WinSize >= 1 \/ SweptRow < maxy)) =>
        /\ pc # "fatal"
        /\ \A x \in 0..maxx :
              /\ SweptRow - WinSize + 1 <= maximaRows[x]
              /\ maximaRows[x] <= SweptRow + WinSize + 1

(* C16, the failing case: with winSize = 0, in the step of the last row the
   assertion maximaRows[x] >= y - winSize + 1 fails, maximaRows[x] being
   maxy. *)
C16_LastRowAssertionFails ==
    /\ last.op = "sweep"
    /\ pc = "fatal"
    /\ WinSize = 0
    /\ smoothRadius < resolution
    /\ row = maxy
    /\ \E x \in 0..maxx : maximaRows[x] = maxy /\ maximaRows[x] < row - WinSize + 1

-----------------------------------------------------------------------------
(* The value of a blurred cell *)

(* the source element of cell (x, y) shifted by d along the axis of the
   running pass, the shifted coordinate clamped to the grid border *)
Tap(x, y, d) ==
    IF pc = "blurH" THEN mesh[Clamp(x + d, 0, maxx - 1) + y * maxx]
    ELSE mesh[x + Clamp(y + d, 0, maxy - 1) * maxx]

RECURSIVE Convolution(_, _, _)
Convolution(x, y, d) ==
    IF d > BlurSize THEN 0
    ELSE Kernels[BlurSize][Abs(d)] * Tap(x, y, d) + Convolution(x, y, d + 1)

Blurred(x, y) ==
    Clamp(Max2(Height(x, y), Convolution(x, y, -BlurSize) \div Fixed),
          currMinHeight, currMaxHeight)

CellsOf(i) ==
    IF pc = "blurH" THEN {<<x, i>> : x \in 0..(maxx - 1)}
    ELSE {<<i, y>> : y \in 0..(maxy - 1)}

(* C17: every destination cell (x, y) written in a blur pass holds
   clamp(max(true height at (x, y), sum over d in -blurSize..blurSize of
   kernel[|d|] * source[(x, y) shifted by d along the pass axis, the shifted
   coordinate clamped to the grid border]), minHeight, maxHeight): a tap
   outside the grid is the edge cell of the same row or column. *)
C17_BlurFormula ==
    Blurring =>
        \A i \in Finished : \A c \in CellsOf(i) :
            origMesh[c[1] + c[2] * maxx] = Blurred(c[1], c[2])

(* C17, witness: a horizontal pass with blurSize 2 has ended and a cell of
   column 0, two of whose taps lie left of the grid, holds a convolution
   value: above the true height, below maxHeight, not the source value. *)
C17_Witness ==
    /\ pc = "blurH"
    /\ pending = {}
    /\ BlurSize = 2
    /\ \E y \in 0..(maxy - 1) :
          /\ origMesh[y * maxx] = Blurred(0, y)
          /\ origMesh[y * maxx] > Height(0, y)
          /\ origMesh[y * maxx] < currMaxHeight
          /\ origMesh[y * maxx] # mesh[y * maxx]

-----------------------------------------------------------------------------
(* The result of the build *)

Cells == {<<x, y>> : x \in 0..(maxx - 1), y \in 0..(maxy - 1)}

(* the cells after the windowed-max pass *)
Swept == [c \in Cells |-> WindowMax(c[1], c[2], maxx - 1)]

RECURSIVE GridSum(_, _, _, _)
GridSum(g, c, d, horizontal) ==
    IF d > BlurSize THEN 0
    ELSE Kernels[BlurSize][Abs(d)]
           * (IF horizontal THEN g[<<Clamp(c[1] + d, 0, maxx - 1), c[2]>>]
              ELSE g[<<c[1], Clamp(c[2] + d, 0, maxy - 1)>>])
         + GridSum(g, c, d + 1, horizontal)

(* one blur pass over a fully written grid *)
GridPass(g, horizontal) ==
    [c \in Cells |->
        Clamp(Max2(Height(c[1], c[2]), GridSum(g, c, -BlurSize, horizontal) \div Fixed),
              currMinHeight, currMaxHeight)]

RECURSIVE Rounds(_, _)
Rounds(n, g) == IF n = 0 THEN g ELSE Rounds(n - 1, GridPass(GridPass(g, TRUE), FALSE))

(* C18: when the build has completed, blurPassesCount rounds of a
   horizontal and then a vertical pass have run, the cells of mesh hold the
   output of the last vertical pass, each pass having read the complete
   output of the pass before it (the first one the windowed maxima), and
   origMesh equals mesh at every element of the array. *)
C18_FinalCopy ==
    Built =>
        /\ stage = 1 + 2 * blurPassesCount
        /\ \A c \in Cells : Cell(c[1], c[2]) = Rounds(blurPassesCount, Swept)[c]
        /\ DOMAIN origMesh = DOMAIN mesh
        /\ \A i \in DOMAIN mesh : origMesh[i] = mesh[i]

(* C18, witness: a build has completed whose second round still changed a
   cell, and whose two buffers differed outside the cells before the copy
   (row maxy holds a windowed maximum other than 0). *)
C18_Witness ==
    /\ Built
    /\ origMesh = mesh
    /\ Rounds(1, Swept) # Rounds(2, Swept)
    /\ \A c \in Cells : Cell(c[1], c[2]) = Rounds(2, Swept)[c]
    /\ mesh[maxx * maxy] # 0

-----------------------------------------------------------------------------
(* Index safety *)

MeshIndices == 0..((maxx + 1) * (maxy + 1) - 1)

(* C19: every index the build and the queries use lies inside its array:
   mesh and origMesh have the indices 0..(maxx+1)*(maxy+1)-1 from the
   resize on, colsMaxima and maximaRows the indices 0..maxx, the kernel
   0..blurSize; the step of each sweep row, each iteration of each blur
   pass and each returning query stay within them, for every grid size,
   every winSize >= 0 and every query coordinate. *)
C19_IndexSafety ==
    /\ (life = "building" /\ pc # "fatal") =>
          /\ maxx >= 1 /\ maxy >= 1 /\ WinSize >= 0
          /\ DOMAIN mesh = MeshIndices
          /\ DOMAIN origMesh = MeshIndices
          /\ DOMAIN colsMaxima = 0..maxx
          /\ DOMAIN maximaRows = 0..maxx
    /\ pc = "sweep" =>
          /\ row \in 0..maxy
          /\ ColumnIndices(maxx) \subseteq DOMAIN colsMaxima
          /\ ColumnIndices(maxx) \subseteq DOMAIN maximaRows
          /\ RadialReads(maxx, WinSize) \subseteq DOMAIN colsMaxima
          /\ RadialWrites(row, maxx) \subseteq DOMAIN mesh
    /\ Blurring =>
          /\ DOMAIN Kernels[BlurSize] = 0..BlurSize
          /\ KernelReads(BlurSize) \subseteq DOMAIN Kernels[BlurSize]
          /\ \A i \in Workers :
                /\ SourceReads(i) \subseteq DOMAIN mesh
                /\ OwnLine(i) \subseteq DOMAIN origMesh
                /\ ReadsBack(i) \subseteq DOMAIN origMesh
          /\ \A w \in writes : w[2] \in DOMAIN origMesh
    /\ (last.op \in QueryOps /\ last.returned /\ pc # "fatal") =>
          /\ last.reads # {}
          /\ last.reads \subseteq MeshIndices
          /\ last.reads \subseteq DOMAIN mesh

(* C19, witness: with winSize = 0 on a 2 x 2 grid, a GetHeight beyond the
   last grid line has returned during the sweep, having read the last cell
   of the grid. *)
C19_Witness ==
    /\ last.op = "GetHeight"
    /\ last.returned
    /\ pc = "sweep"
    /\ WinSize = 0
    /\ last.a > fmaxx
    /\ last.b > fmaxy
    /\ last.reads = {maxx * maxy - 1}

-----------------------------------------------------------------------------
(* The capacity of the far-texture atlas *)

Capacity == (texSize.x \div iconSize.x) * (texSize.y \div iconSize.y)

Allocated == farCall.op = "CreateFarTexture" /\ farCall.atlas = "true"

(* C20: whenever CheckResizeAtlas has returned true and a slot was
   allocated, the atlas holds all NUM_ICON_ORIENTATIONS sprites of every
   slot in use, its height is at most maxTextureSize, and
   CheckResizeAtlas had never returned false before: once out of space, no
   later call allocates a slot and usedFarTextures stops growing. *)
C20_AtlasCapacity ==
    Allocated =>
        /\ usedFarTextures * NUM_ICON_ORIENTATIONS <= Capacity
        /\ texSize.y <= maxTextureSize
        /\ ~atlasFull

(* the same, for the calls made before the atlas first ran out of space *)
AtlasCapacityUntilFull ==
    (Allocated /\ ~atlasFull) =>
        /\ usedFarTextures * NUM_ICON_ORIENTATIONS <= Capacity
        /\ texSize.y <= maxTextureSize
        /\ \A o \in 0..(NUM_ICON_ORIENTATIONS - 1) :
              (GetTextureCoordsInt(texSize, farCall.slot, o).y + 1) * iconSize.y <= texSize.y

(* C20, the failing case: after a call that found the atlas out of space, a
   later call has allocated a slot; the height of the atlas is above
   maxTextureSize and the slot's sprites lie below the last row that a
   texture of height maxTextureSize holds. *)
C20_AllocatedWhenFull ==
    /\ Allocated
    /\ atlasFull
    /\ texSize.y > maxTextureSize
    /\ (GetTextureCoordsInt(texSize, farCall.slot, NUM_ICON_ORIENTATIONS - 1).y + 1)
          * iconSize.y > maxTextureSize

-----------------------------------------------------------------------------
(* The sprite DrawFarTexture selects *)

Quads == {drawn[i] : i \in DOMAIN drawn}

(* the slot of the atlas that the selected sprite lies in *)
SlotOf(q) ==
    (q.pos.y * (texSize.x \div iconSize.x) + q.pos.x) \div NUM_ICON_ORIENTATIONS

(* C21: for every camera heading and every object heading, the orientation
   index of a far texture drawn by DrawFarTexture lies in
   0..NUM_ICON_ORIENTATIONS-1, and the sprite selected lies in the object's
   own slot farTexNum - 1 of the atlas. *)
C21_OrientInRange ==
    \A q \in Quads :
        q.quad =>
            /\ q.orient \in 0..(NUM_ICON_ORIENTATIONS - 1)
            /\ SlotOf(q) = q.farTexNum - 1

(* the index never exceeds NUM_ICON_ORIENTATIONS *)
OrientAtMostOneBeyond ==
    \A q \in Quads : q.quad => q.orient \in 0..NUM_ICON_ORIENTATIONS

(* C21, the failing case: a quad drawn with the orientation index
   NUM_ICON_ORIENTATIONS, whose sprite is the first one of the next slot. *)
C21_OrientBeyondLast ==
    \E q \in Quads :
        /\ q.quad
        /\ q.orient = NUM_ICON_ORIENTATIONS
        /\ SlotOf(q) = q.farTexNum

-----------------------------------------------------------------------------
(* The queues of a frame *)

Queued == farCall'.op = "Queue"

QueuedObject == SolidObject(farCall'.team, farCall'.model, 0)

Pushed(queue, obj) ==
    /\ Len(queue') = Len(queue) + 1
    /\ SubSeq(queue', 1, Len(queue)) = queue
    /\ queue'[Len(queue')].team = obj.team
    /\ queue'[Len(queue')].model = obj.model

(* what a call does to the queues *)
QueueStep ==
    /\ (Queued /\ ~HaveFarIcon(iconCache, QueuedObject)
          /\ Len(createQueue) = MAX_CREATE_QUEUE_SIZE)
        => UNCHANGED <<createQueue, renderQueue>>
    /\ (Queued /\ HaveFarIcon(iconCache, QueuedObject))
        => (Pushed(renderQueue, QueuedObject) /\ UNCHANGED createQueue)
    /\ (farCall'.op = "Draw")
        => (createQueue' = << >> /\ renderQueue' = << >>)

(* C22: createQueue never holds more than MAX_CREATE_QUEUE_SIZE objects; a
   Queue call for an object without a far icon made while createQueue is
   full adds the object to neither queue; a Queue call for an object that has
   a far icon adds it to renderQueue and not to createQueue; Draw leaves both
   queues empty. *)
C22_CreateQueueBound ==
    /\ [](Len(createQueue) <= MAX_CREATE_QUEUE_SIZE)
    /\ [][QueueStep]_vars

(* a Queue call for an object without a far icon has been turned away by the
   full createQueue, while renderQueue holds one object more, which had its
   far icon *)
C22_Witness ==
    /\ farCall.op = "Queue"
    /\ ~HaveFarIcon(iconCache, SolidObject(farCall.team, farCall.model, 0))
    /\ Len(createQueue) = MAX_CREATE_QUEUE_SIZE
    /\ Len(renderQueue) = MAX_CREATE_QUEUE_SIZE + 1
    /\ usedFarTextures > 0

(* C23: every object that Draw renders finds its entry in iconCache: both
   indices, obj->team and obj->model->id, are in range when DrawFarTexture
   reads iconCache, whether the object had its far icon when queued or was
   put in createQueue as well, and also when the atlas was full or the object
   was queued several times. *)
C23_IconCacheBounds ==
    \A q \in Quads : q.inCache

(* a frame has been drawn that held the same object twice, while the atlas
   was out of space and an object was left without a far icon *)
C23_Witness ==
    /\ farCall.op = "Draw"
    /\ atlasFull
    /\ \E i, j \in DOMAIN drawn :
          /\ i # j
          /\ drawn[i].team = drawn[j].team
          /\ drawn[i].model = drawn[j].model
    /\ \E q \in Quads : q.inCache /\ ~q.quad
    /\ \E q \in Quads : q.inCache /\ q.quad

-----------------------------------------------------------------------------
(* The order of the handles in DefaultCommand *)

Called == luaCall.op = "DefaultCommand"

Count == Size(listDefaultCommand)

(* what the handle at index i of the list returns in the last call *)
AnswerAt(i) == luaCall.answers[listDefaultCommand[i]]

(* the handles were called from the last of the list on, one after the
   other *)
ReverseOrder ==
    /\ Len(luaCall.consulted) <= Count
    /\ \A k \in DOMAIN luaCall.consulted : luaCall.consulted[k] = Count - k

FirstTrue == luaCall.consulted[Len(luaCall.consulted)]

(* C24: DefaultCommand consults the handles of listDefaultCommand in reverse
   list order; it returns true at the first handle that returns true, and no
   handle earlier in the list is consulted; it returns false exactly when
   every handle of the list returned false, which includes the empty list. *)
C24_ReverseOrderOverride ==
    Called =>
        /\ ReverseOrder
        /\ luaCall.ret =>
              /\ luaCall.consulted # << >>
              /\ AnswerAt(FirstTrue)
              /\ \A i \in (FirstTrue + 1)..(Count - 1) : ~AnswerAt(i)
        /\ ~luaCall.ret <=>
              /\ Len(luaCall.consulted) = Count
              /\ \A i \in 0..(Count - 1) : ~AnswerAt(i)

(* the last handle of a list of three said no, the one before it said yes
   and DefaultCommand returned true; the first handle of the list, which
   would have said yes as well, was not consulted *)
C24_Witness ==
    /\ Called
    /\ Count = 3
    /\ ~AnswerAt(2)
    /\ AnswerAt(1)
    /\ AnswerAt(0)
    /\ listDefaultCommand[0] # listDefaultCommand[1]
    /\ luaCall.ret
    /\ luaCall.consulted = <<2, 1>>

====
